---- MODULE Spec2Model ----
(***************************************************************************)
(* WingsCAD airfoil core: code parsers, the 5-digit fixed-point solver,    *)
(* geometry generation, metrics and the family facades.                    *)
(*                                                                         *)
(* A code string is a sequence of one-character tokens.  Two tokens stand  *)
(* for non-ASCII characters: "AR3" is U+0663 ARABIC-INDIC DIGIT THREE      *)
(* (str.isdigit() is True and int() converts it to 3) and "SUP2" is U+00B2 *)
(* SUPERSCRIPT TWO (str.isdigit() is True but int() rejects it).           *)
(*                                                                         *)
(* Floating-point quantities are fixed-point integers in units of 1/S.     *)
(***************************************************************************)
EXTENDS Integers, Sequences, FiniteSets, TLC

\* ------------------------------------------------------------------------
\* Bounds of the model
\* ------------------------------------------------------------------------
MaxEdits == 1

\* the largest sample count n_points a caller passes
MaxN == 4

\* magnitude (in whole units) from which a float counts as overflowed to inf
FloatMax == 1000

\* fixed-point scale: one unit is 1e-6, the solver's tolerance
S == 1000000

\* ------------------------------------------------------------------------
\* Characters and the Python string primitives the parsers use
\* ------------------------------------------------------------------------
AsciiDigits == {"0", "1", "2", "3", "4", "5", "6", "7", "8", "9"}

\* str.isdecimal(): the characters int() accepts as digits
DecimalChars == AsciiDigits \cup {"AR3"}

\* str.isdigit() for one character: decimals and digit-like characters
IsDigitChar(c) == c \in DecimalChars \cup {"SUP2"}

\* whitespace as str.strip() and int() see it
IsSpace(c) == c = " "

DigitVal(c) ==
    CASE c = "0" -> 0 [] c = "1" -> 1 [] c = "2" -> 2 [] c = "3" -> 3
      [] c = "4" -> 4 [] c = "5" -> 5 [] c = "6" -> 6 [] c = "7" -> 7
      [] c = "8" -> 8 [] c = "9" -> 9 [] c = "AR3" -> 3

RECURSIVE LStrip(_)
LStrip(s) == IF s # <<>> /\ IsSpace(Head(s)) THEN LStrip(Tail(s)) ELSE s

RECURSIVE RStrip(_)
RStrip(s) ==
    IF s # <<>> /\ IsSpace(s[Len(s)]) THEN RStrip(SubSeq(s, 1, Len(s) - 1)) ELSE s

\* str.strip()
Strip(s) == RStrip(LStrip(s))

\* str.isdigit(): non-empty and every character a digit
IsDigitStr(s) == s # <<>> /\ \A i \in 1..Len(s) : IsDigitChar(s[i])

\* s[k:] with a 0-based start
SliceFrom(s, k) == SubSeq(s, k + 1, Len(s))

RECURSIVE DecimalValue(_)
DecimalValue(s) ==
    IF s = <<>> THEN 0
    ELSE 10 * DecimalValue(SubSeq(s, 1, Len(s) - 1)) + DigitVal(s[Len(s)])

\* int(s): surrounding whitespace is ignored, one leading sign is allowed,
\* the rest must be decimal digits; anything else raises ValueError
IntOf(s) ==
    LET b == Strip(s)
        signed == b # <<>> /\ Head(b) \in {"+", "-"}
        d == IF signed THEN Tail(b) ELSE b
        good == d # <<>> /\ \A i \in 1..Len(d) : d[i] \in DecimalChars
    IN  IF ~good THEN [ok |-> FALSE, v |-> 0]
        ELSE [ok |-> TRUE,
              v |-> IF signed /\ Head(b) = "-" THEN 0 - DecimalValue(d)
                    ELSE DecimalValue(d)]

\* ------------------------------------------------------------------------
\* Results: a returned value or a raised exception.  err is the spec's
\* error class; site tells which statement raised it.
\* ------------------------------------------------------------------------
Ok(v) == [status |-> "ok", val |-> v]
Err(kind, site) == [status |-> "error", err |-> kind, site |-> site]
IsOk(r) == r.status = "ok"
IsErr(r) == r.status = "error"
Failed(r, kind) == r.status = "error" /\ r.err = kind

\* ------------------------------------------------------------------------
\* Code parsers
\* ------------------------------------------------------------------------
\* parse_naca4 with the length test relaxed to "at least 4" (a truncating parser)
parse_naca4_lenient(rawcode, chord) ==
    LET stripped == Strip(rawcode)
    IN  IF Len(stripped) < 4 \/ ~IsDigitStr(stripped)
        THEN Err("InvalidCodeFormat", "check")
        ELSE LET d1 == IntOf(<<stripped[1]>>)
                 d2 == IntOf(<<stripped[2]>>)
                 tt == IntOf(SubSeq(stripped, 3, 4))
             IN  IF ~d1.ok \/ ~d2.ok \/ ~tt.ok
                 THEN Err("InvalidCodeFormat", "int")
                 ELSE Ok([code |-> stripped,
                          m |-> d1.v * (S \div 100),
                          p |-> d2.v * (S \div 10),
                          t |-> tt.v * (S \div 100),
                          chord |-> chord])

parse_naca4(rawcode, chord) ==
    LET stripped == Strip(rawcode)
    IN  IF Len(stripped) # 4 \/ ~IsDigitStr(stripped)
        THEN Err("InvalidCodeFormat", "check")
        ELSE LET d1 == IntOf(<<stripped[1]>>)
                 d2 == IntOf(<<stripped[2]>>)
                 tt == IntOf(SliceFrom(stripped, 2))
             IN  IF ~d1.ok \/ ~d2.ok \/ ~tt.ok
                 THEN Err("InvalidCodeFormat", "int")
                 ELSE Ok([code |-> stripped,
                          m |-> d1.v * (S \div 100),
                          p |-> d2.v * (S \div 10),
                          t |-> tt.v * (S \div 100),
                          chord |-> chord])

\* parse_naca5 without the range check on Q
parse_naca5_anyQ(rawcode, chord) ==
    LET stripped == Strip(rawcode)
    IN  IF Len(stripped) # 5 \/ ~IsDigitStr(stripped)
        THEN Err("InvalidCodeFormat", "check")
        ELSE LET dL == IntOf(<<stripped[1]>>)
                 dP == IntOf(<<stripped[2]>>)
                 dQ == IntOf(<<stripped[3]>>)
                 tt == IntOf(SliceFrom(stripped, 3))
             IN  IF ~dL.ok \/ ~dP.ok \/ ~dQ.ok \/ ~tt.ok
                 THEN Err("InvalidCodeFormat", "int")
                 ELSE Ok([code |-> stripped, L |-> dL.v, P |-> dP.v, Q |-> dQ.v,
                          t |-> tt.v * (S \div 100), chord |-> chord])

parse_naca5(rawcode, chord) ==
    LET stripped == Strip(rawcode)
    IN  IF Len(stripped) # 5 \/ ~IsDigitStr(stripped)
        THEN Err("InvalidCodeFormat", "check")
        ELSE LET dL == IntOf(<<stripped[1]>>)
                 dP == IntOf(<<stripped[2]>>)
                 dQ == IntOf(<<stripped[3]>>)
                 tt == IntOf(SliceFrom(stripped, 3))
             IN  IF ~dL.ok \/ ~dP.ok \/ ~dQ.ok \/ ~tt.ok
                 THEN Err("InvalidCodeFormat", "int")
                 ELSE IF dQ.v \notin {0, 1}
                 THEN Err("InvalidParameter", "Q")
                 ELSE Ok([code |-> stripped, L |-> dL.v, P |-> dP.v, Q |-> dQ.v,
                          t |-> tt.v * (S \div 100), chord |-> chord])

parse_naca6(rawcode, chord) ==
    LET stripped == Strip(rawcode)
    IN  IF Len(stripped) # 6 \/ stripped[1] # "6" \/ stripped[3] # "-"
        THEN Err("InvalidCodeFormat", "check")
        ELSE LET pm == IntOf(<<stripped[2]>>)
                 cl == IntOf(<<stripped[4]>>)
                 tt == IntOf(SliceFrom(stripped, 4))
             IN  IF ~pm.ok \/ ~cl.ok \/ ~tt.ok
                 THEN Err("InvalidCodeFormat", "int")
                 ELSE Ok([code |-> stripped,
                          pos_min_pressure |-> pm.v,
                          design_cl |-> cl.v * (S \div 10),
                          thickness |-> tt.v * (S \div 100),
                          chord |-> chord])

\* parse_series taking the last four characters as base4, whatever the length
parse_series_last4(rawcode, chord, digit) ==
    LET s == Strip(rawcode)
    IN  IF Len(s) < 4 \/ ~IsDigitStr(s)
        THEN Err("InvalidCodeFormat", "check")
        ELSE IF s[1] # digit
        THEN Err("InvalidCodeFormat", "prefix")
        ELSE Ok([code |-> s, base4 |-> SubSeq(s, Len(s) - 3, Len(s)), chord |-> chord])

\* parse_naca7 and parse_naca8 differ only in the family digit
parse_series(rawcode, chord, digit) ==
    LET s == Strip(rawcode)
    IN  IF Len(s) < 4 \/ ~IsDigitStr(s)
        THEN Err("InvalidCodeFormat", "check")
        ELSE IF s[1] # digit
        THEN Err("InvalidCodeFormat", "prefix")
        ELSE IF Len(SliceFrom(s, 1)) # 4
        THEN Err("InvalidCodeFormat", "base4")
        ELSE Ok([code |-> s, base4 |-> SliceFrom(s, 1), chord |-> chord])

parse_naca7(rawcode, chord) == parse_series(rawcode, chord, "7")

parse_naca8(rawcode, chord) == parse_series(rawcode, chord, "8")

\* ------------------------------------------------------------------------
\* Fixed-point arithmetic standing for the float operations of the code.
\* A number x is the integer x * S, rounded toward zero.
\* ------------------------------------------------------------------------
Abs(a) == IF a < 0 THEN 0 - a ELSE a
Sgn(a) == IF a < 0 THEN 0 - 1 ELSE IF a > 0 THEN 1 ELSE 0

\* a * b for a, b >= 0, by halves so that no intermediate exceeds 32 bits
MulU(a, b) ==
    LET a1 == a \div 1000
        a0 == a % 1000
        b1 == b \div 1000
        b0 == b % 1000
    IN  a1 * b1 + (a1 * b0 + a0 * b1 + (a0 * b0) \div 1000) \div 1000

\* a * b, t = <<a, b>>
Product == [t \in Int \X Int |-> Sgn(t[1]) * Sgn(t[2]) * MulU(Abs(t[1]), Abs(t[2]))]

Mul(a, b) == Product[<<a, b>>]

\* a / b for a >= 0, b > 0, by long division, one decimal at a time
RECURSIVE DivDigits(_, _, _)
DivDigits(r, b, n) ==
    IF n = 0 THEN 0
    ELSE LET d == (r * 10) \div b
             rest == (r * 10) % b
             w == IF n = 6 THEN 100000 ELSE IF n = 5 THEN 10000 ELSE IF n = 4 THEN 1000
                  ELSE IF n = 3 THEN 100 ELSE IF n = 2 THEN 10 ELSE 1
         IN  d * w + DivDigits(rest, b, n - 1)

DivU(a, b) == (a \div b) * S + DivDigits(a % b, b, 6)

\* a / b, b # 0, t = <<a, b>>
Quotient == [t \in Int \X Int |-> Sgn(t[1]) * Sgn(t[2]) * DivU(Abs(t[1]), Abs(t[2]))]

Div(a, b) == Quotient[<<a, b>>]

\* q * q <= v, exactly
SqLeq(q, v) ==
    LET q1 == q \div 1000
        q0 == q % 1000
        low == (((2 * q1 * q0) % 1000) * 1000 + q0 * q0) % S
        high == MulU(q, q)
    IN  /\ q1 < 46000
        /\ high < v \/ (high = v /\ low = 0)

\* one hexadecimal digit of the root: t = <<v, q, w>>, q the digits above
\* the one of weight w
SqrtDigit ==
    [t \in Nat \X Nat \X Nat |->
        t[2] + t[3] * (CHOOSE d \in 0..15 :
                          /\ SqLeq(t[2] + d * t[3], t[1])
                          /\ d = 15 \/ ~SqLeq(t[2] + (d + 1) * t[3], t[1]))]

\* the digits of the root from the top one down to the one of weight w
RECURSIVE SqrtSearch(_, _)
SqrtSearch(v, w) ==
    IF w > 16777216 THEN 0 ELSE SqrtDigit[<<v, SqrtSearch(v, 16 * w), w>>]

\* sqrt(v) for v >= 0: the largest q with q * q <= v
Root == [v \in Nat |-> SqrtSearch(v, 1)]

Sqrt(v) == Root[v]

\* float specials of the solver, whose iterates are never negative
PosInf == FloatMax * S
NaN == 0 - 1

\* a * b, a + b and sqrt(a) with overflow to inf
FMul(a, b) ==
    IF a = PosInf \/ b = PosInf THEN PosInf
    ELSE IF b \div 1000 > 0 /\ a \div 1000 > PosInf \div (b \div 1000) THEN PosInf
    ELSE IF MulU(a, b) >= PosInf THEN PosInf
    ELSE MulU(a, b)

FAdd(a, b) == IF a = PosInf \/ b = PosInf \/ a + b >= PosInf THEN PosInf ELSE a + b

FSqrt(a) == IF a = PosInf THEN PosInf ELSE Sqrt(a)

FDiv3(a) == IF a = PosInf THEN PosInf ELSE a \div 3

\* abs(a - b); inf - inf is nan
FAbsDiff(a, b) ==
    IF a = PosInf /\ b = PosInf THEN NaN
    ELSE IF a = PosInf \/ b = PosInf THEN PosInf
    ELSE Abs(a - b)

\* a > b as floats compare: false when a is nan
FGreater(a, b) == a # NaN /\ a > b

\* ------------------------------------------------------------------------
\* The 5-digit fixed-point solver
\* ------------------------------------------------------------------------
Tol == 1
MaxIter == 1000

\* the loop test with "or" for "and"
LoopCondOr(step, passes, tol, max_iter) == FGreater(step, tol) \/ passes < max_iter

\* while diff > tol and it < max_iter (step is diff, passes is it)
LoopCond(step, passes, tol, max_iter) == FGreater(step, tol) /\ passes < max_iter

\* r = xmc + r_old * math.sqrt(r_old / 3.0) (r_prev is r_old)
SolverStep(xmc, r_prev) == FAdd(xmc, FMul(r_prev, FSqrt(FDiv3(r_prev))))

\* one pass of the loop, or nothing once its test fails;
\* st = <<xmc, r_old, diff, it>>
SolverPass ==
    [st \in Int \X Int \X Int \X Int |->
        IF LoopCond(st[3], st[4], Tol, MaxIter)
        THEN LET r == SolverStep(st[1], st[2])
             IN  <<st[1], r, FAbsDiff(r, st[2]), st[4] + 1>>
        ELSE st]

\* n passes, in two halves; t = <<st, n>>
SolverLoop[t \in (Int \X Int \X Int \X Int) \X Nat] ==
    IF t[2] = 1 THEN SolverPass[t[1]]
    ELSE SolverLoop[<<SolverLoop[<<t[1], t[2] \div 2>>], t[2] - t[2] \div 2>>]

\* _compute_r_standard(xmc) with its default tol and max_iter: the loop
\* makes at most max_iter passes and returns r_old
compute_r_standard(xmc) == SolverLoop[<<<<xmc, S \div 10, S, 0>>, MaxIter>>][2]

\* ------------------------------------------------------------------------
\* Trigonometry
\* ------------------------------------------------------------------------
Pi == 3141593
HalfPi == 1570796

\* cos(b) for 0 <= b <= pi/2: 1 - b2/2 (1 - b2/12 (1 - b2/30 ( ... )))
CosDivisors == <<2, 12, 30, 56, 90, 132, 182>>

\* sin(b) for |b| <= pi/2: b (1 - b2/6 (1 - b2/20 (1 - b2/42 ( ... ))))
SinDivisors == <<6, 20, 42, 72, 110, 156>>

RECURSIVE Horner(_, _, _)
Horner(b2, divisors, k) ==
    IF k > Len(divisors) THEN S
    ELSE S - Mul(b2, Horner(b2, divisors, k + 1)) \div divisors[k]

\* np.cos(b) for 0 <= b <= pi
Cos(b) ==
    IF b > HalfPi
    THEN 0 - Horner(Mul(Pi - b, Pi - b), CosDivisors, 1)
    ELSE Horner(Mul(b, b), CosDivisors, 1)

Sin(b) == Mul(b, Horner(Mul(b, b), SinDivisors, 1))

\* sin(a - pi/2) <= z, for a in 0..pi
AsinLeq(a, z) == a = 0 \/ (a <= 2 * HalfPi /\ Sin(a - HalfPi) <= z)

\* one hexadecimal digit of asin(z) + pi/2: t = <<z, q, w>>, q the digits
\* above the one of weight w
AsinDigit ==
    [t \in Int \X Nat \X Nat |->
        t[2] + t[3] * (CHOOSE d \in 0..15 :
                          /\ AsinLeq(t[2] + d * t[3], t[1])
                          /\ d = 15 \/ ~AsinLeq(t[2] + (d + 1) * t[3], t[1]))]

RECURSIVE AsinSearch(_, _)
AsinSearch(z, w) ==
    IF w > 1048576 THEN 0 ELSE AsinDigit[<<z, AsinSearch(z, 16 * w), w>>]

\* math.asin(z) for -1 <= z <= 1
ArcSine == [z \in Int |-> AsinSearch(z, 1) - HalfPi]

Asin(z) == ArcSine[z]

\* np.sin(np.arctan(d)) and np.cos(np.arctan(d))
SinAtan(d) == Div(d, Sqrt(S + Mul(d, d)))
CosAtan(d) == Div(S, Sqrt(S + Mul(d, d)))

\* ------------------------------------------------------------------------
\* Sequences, as the numpy calls use them
\* ------------------------------------------------------------------------
Reverse(q) == [i \in 1..Len(q) |-> q[Len(q) + 1 - i]]

\* q[1:]
DropFirst(q) == SubSeq(q, 2, Len(q))

\* np.roll(q, -1)
RollLeft(q) == IF q = <<>> THEN q ELSE DropFirst(q) \o <<q[1]>>

RECURSIVE SeqMax(_)
SeqMax(q) ==
    IF Len(q) = 1 THEN q[1]
    ELSE LET rest == SeqMax(DropFirst(q))
         IN  IF q[1] > rest THEN q[1] ELSE rest

RECURSIVE Dot(_, _)
Dot(a, b) == IF a = <<>> THEN 0 ELSE Mul(a[1], b[1]) + Dot(DropFirst(a), DropFirst(b))

Zeros(n) == [i \in 1..n |-> 0]

\* ------------------------------------------------------------------------
\* Geometry shared by the families
\* ------------------------------------------------------------------------
Spacings == {"cosine", "linear"}

\* np.linspace(0, stop, n)[i], i from 0
Linspace(stop, n, i) == IF i = n - 1 THEN IF n = 1 THEN 0 ELSE stop ELSE (stop * i) \div (n - 1)

\* the x distribution
SamplePoints(n, spacing) ==
    IF spacing = "cosine"
    THEN [i \in 1..n |-> (S - Cos(Linspace(Pi, n, i - 1))) \div 2]
    ELSE [i \in 1..n |-> Linspace(S, n, i - 1)]

\* yt at one x
ThicknessAt(t, x) ==
    LET x2 == Mul(x, x)
        x3 == Mul(x2, x)
        x4 == Mul(x2, x2)
    IN  Mul(5 * t, Mul(296900, Sqrt(x)) - Mul(126000, x) - Mul(351600, x2)
                   + Mul(284300, x3) - Mul(101500, x4))

Thickness(t, x) == [i \in 1..Len(x) |-> ThicknessAt(t, x[i])]

\* upper and lower surfaces from the camber line, its slope and the thickness
Surfaces(x, yt, yc, dyc) ==
    [xu |-> [i \in 1..Len(x) |-> x[i] - Mul(yt[i], SinAtan(dyc[i]))],
     yu |-> [i \in 1..Len(x) |-> yc[i] + Mul(yt[i], CosAtan(dyc[i]))],
     xl |-> [i \in 1..Len(x) |-> x[i] + Mul(yt[i], SinAtan(dyc[i]))],
     yl |-> [i \in 1..Len(x) |-> yc[i] - Mul(yt[i], CosAtan(dyc[i]))]]

\* the loop keeping the leading-edge point of both surfaces
ClosedLoopKeepLE(upper, lower) == Reverse(upper) \o lower

\* the loop without reversing the upper surface
ClosedLoopNoReverse(upper, lower) == upper \o DropFirst(lower)

\* np.concatenate([upper[::-1], lower[1:]])
ClosedLoop(upper, lower) == Reverse(upper) \o DropFirst(lower)

Scale(q, c) == [i \in 1..Len(q) |-> Mul(q[i], c)]

\* the closed loop with the chord applied to y as well as to x
AssembleScaledY(sf, x, yt, yc, c) ==
    [x_loop |-> Scale(ClosedLoop(sf.xu, sf.xl), c),
     y_loop |-> Scale(ClosedLoop(sf.yu, sf.yl), c),
     x_c |-> Scale(x, c),
     yc |-> Scale(yc, c),
     x |-> x,
     yt |-> yt]

\* the closed loop, scaled by the chord in x, with the camber line and the
\* raw x and yt
Assemble(sf, x, yt, yc, c) ==
    [x_loop |-> Scale(ClosedLoop(sf.xu, sf.xl), c),
     y_loop |-> ClosedLoop(sf.yu, sf.yl),
     x_c |-> Scale(x, c),
     yc |-> yc,
     x |-> x,
     yt |-> yt]

\* the scalars every compute_metrics derives
\* the largest thickness times the square of the chord
MaxThicknessChordSquared(yt, c) == Mul(Mul(SeqMax([i \in 1..Len(yt) |-> 2 * yt[i]]), c), c)

MaxThickness(yt, c) == Mul(SeqMax([i \in 1..Len(yt) |-> 2 * yt[i]]), c)
MaxCamber(yc, c) == Mul(SeqMax([i \in 1..Len(yc) |-> Abs(yc[i])]), c)
\* the sum with its second dot product left out
ShoelaceFirstDot(xs, ys) == Dot(xs, RollLeft(ys))

ShoelaceSum(xs, ys) == Dot(xs, RollLeft(ys)) - Dot(ys, RollLeft(xs))
Area(xs, ys) == Abs(ShoelaceSum(xs, ys)) \div 2
LeadingEdgeRadius(t, c) == Mul(Mul(1101900, Mul(t, t)), c)

\* ------------------------------------------------------------------------
\* NACA 4-digit
\* ------------------------------------------------------------------------
Camber4At(m, p, xi) ==
    IF xi < p
    THEN Mul(Div(m, Mul(p, p)), Mul(2 * p, xi) - Mul(xi, xi))
    ELSE Mul(Div(m, Mul(S - p, S - p)), (S - 2 * p) + Mul(2 * p, xi) - Mul(xi, xi))

Slope4At(m, p, xi) ==
    IF xi < p
    THEN Mul(Div(2 * m, Mul(p, p)), p - xi)
    ELSE Mul(Div(2 * m, Mul(S - p, S - p)), p - xi)

\* the camber line taking m = 0, not p = 0, as the mark of a symmetric section
Camber4SymmetricByM(m, p, x) ==
    IF m = 0 THEN Zeros(Len(x)) ELSE [i \in 1..Len(x) |-> Camber4At(m, p, x[i])]

Camber4(m, p, x) ==
    IF p = 0 THEN Zeros(Len(x)) ELSE [i \in 1..Len(x) |-> Camber4At(m, p, x[i])]

Slope4(m, p, x) ==
    IF p = 0 THEN Zeros(Len(x)) ELSE [i \in 1..Len(x) |-> Slope4At(m, p, x[i])]

Surfaces4(params, n_points, spacing) ==
    LET x == SamplePoints(n_points, spacing)
    IN  Surfaces(x, Thickness(params.t, x),
                 Camber4(params.m, params.p, x), Slope4(params.m, params.p, x))

generate_geometry4(params, n_points, spacing) ==
    IF spacing \notin Spacings THEN Err("InvalidParameter", "spacing")
    ELSE LET x == SamplePoints(n_points, spacing)
             yt == Thickness(params.t, x)
             yc == Camber4(params.m, params.p, x)
         IN  Ok(Assemble(Surfaces4(params, n_points, spacing), x, yt, yc, params.chord))

compute_metrics4(params, g) ==
    IF g.yt = <<>> THEN Err("ValueError", "max")
    ELSE Ok([code |-> params.code,
             m |-> params.m,
             p |-> params.p,
             t |-> params.t,
             chord |-> params.chord,
             max_thickness |-> MaxThickness(g.yt, params.chord),
             max_camber |-> MaxCamber(g.yc, params.chord),
             area |-> Area(g.x_loop, g.y_loop),
             leading_edge_radius |-> LeadingEdgeRadius(params.t, params.chord)])

\* what every facade returns
FullResult(g, metrics) ==
    [x_loop |-> g.x_loop, y_loop |-> g.y_loop, x_c |-> g.x_c, yc |-> g.yc,
     metrics |-> metrics]

\* the record of a facade, or what compute_metrics raised
FullOrError(g, metrics) ==
    IF IsErr(metrics) THEN metrics ELSE Ok(FullResult(g, metrics.val))

\* the facade once the code is parsed: metrics of the geometry, then the record
FullFrom4(params, g) ==
    IF IsErr(g) THEN g
    ELSE FullOrError(g.val, compute_metrics4(params, g.val))

generate_naca4_full(rawcode, chord, n_points, spacing) ==
    LET params == parse_naca4(rawcode, chord)
    IN  IF IsErr(params) THEN params
        ELSE FullFrom4(params.val, generate_geometry4(params.val, n_points, spacing))

\* ------------------------------------------------------------------------
\* NACA 5-digit
\* ------------------------------------------------------------------------
\* N(r) of _compute_k1_standard, for 0 < r < 1
K1Denominator(r) ==
    LET r2 == Mul(r, r)
        r3 == Mul(r2, r)
        r4 == Mul(r2, r2)
    IN  Div(3 * r - 7 * r2 + 8 * r3 - 4 * r4, Sqrt(r - r2))
        - Mul(Mul(1500000, S - 2 * r), HalfPi - Asin(S - 2 * r))

\* _compute_k1_standard(L, r): math.sqrt and math.asin raise "math domain
\* error" outside their domain, a zero divisor raises ZeroDivisionError
compute_k1_standard(L, r) ==
    IF r = PosInf \/ r > S THEN Err("NumericDomainError", "k1")
    ELSE IF r = 0 \/ r = S THEN Err("ZeroDivisionError", "k1")
    ELSE IF K1Denominator(r) = 0 THEN Err("ZeroDivisionError", "k1")
    ELSE Ok(Div(6 * (150000 * L), K1Denominator(r)))

Camber5At(k1, r, xi) ==
    IF xi < r
    THEN Mul(k1 \div 6,
             Mul(Mul(xi, xi), xi) - Mul(3 * r, Mul(xi, xi)) + Mul(Mul(Mul(r, r), 3 * S - r), xi))
    ELSE Mul(Mul(k1, Mul(Mul(r, r), r)) \div 6, S - xi)

Slope5At(k1, r, xi) ==
    IF xi < r
    THEN Mul(k1 \div 6,
             3 * Mul(xi, xi) - Mul(6 * r, xi) + Mul(Mul(r, r), 3 * S - r))
    ELSE 0 - (Mul(k1, Mul(Mul(r, r), r)) \div 6)

Camber5(k1, r, x) == [i \in 1..Len(x) |-> Camber5At(k1, r, x[i])]

Slope5(k1, r, x) == [i \in 1..Len(x) |-> Slope5At(k1, r, x[i])]

\* the surfaces of a 5-digit section, r and k1 being those of its camber line
Surfaces5(params, r, k1, n_points, spacing) ==
    LET x == SamplePoints(n_points, spacing)
    IN  Surfaces(x, Thickness(params.t, x), Camber5(k1, r, x), Slope5(k1, r, x))

\* generate_geometry without the test for reflex camber
generate_geometry5_reflex(params, n_points, spacing) ==
    IF spacing \notin Spacings THEN Err("InvalidParameter", "spacing")
    ELSE LET x == SamplePoints(n_points, spacing)
             yt == Thickness(params.t, x)
             r == compute_r_standard(50000 * params.P)
             k1 == compute_k1_standard(params.L, r)
         IN  IF IsErr(k1) THEN k1
             ELSE Ok(Assemble(Surfaces5(params, r, k1.val, n_points, spacing), x, yt,
                              Camber5(k1.val, r, x), params.chord))

generate_geometry5(params, n_points, spacing) ==
    IF params.Q = 1 THEN Err("NotSupported", "Q")
    ELSE IF spacing \notin Spacings THEN Err("InvalidParameter", "spacing")
    ELSE LET x == SamplePoints(n_points, spacing)
             yt == Thickness(params.t, x)
             r == compute_r_standard(50000 * params.P)
             k1 == compute_k1_standard(params.L, r)
         IN  IF IsErr(k1) THEN k1
             ELSE Ok(Assemble(Surfaces5(params, r, k1.val, n_points, spacing), x, yt,
                              Camber5(k1.val, r, x), params.chord))

compute_metrics5(params, g) ==
    IF g.yt = <<>> THEN Err("ValueError", "max")
    ELSE Ok([code |-> params.code,
             L |-> params.L,
             P |-> params.P,
             Q |-> params.Q,
             t |-> params.t,
             chord |-> params.chord,
             max_thickness |-> MaxThickness(g.yt, params.chord),
             max_camber |-> MaxCamber(g.yc, params.chord),
             area |-> Area(g.x_loop, g.y_loop),
             leading_edge_radius |-> LeadingEdgeRadius(params.t, params.chord)])

\* the facade once the code is parsed: metrics of the geometry, then the record
FullFrom5(params, g) ==
    IF IsErr(g) THEN g
    ELSE FullOrError(g.val, compute_metrics5(params, g.val))

generate_naca5_full(rawcode, chord, n_points, spacing) ==
    LET params == parse_naca5(rawcode, chord)
    IN  IF IsErr(params) THEN params
        ELSE FullFrom5(params.val, generate_geometry5(params.val, n_points, spacing))

\* ------------------------------------------------------------------------
\* NACA 6-series (simplified)
\* ------------------------------------------------------------------------
Surfaces6(params, n_points, spacing) ==
    LET x == SamplePoints(n_points, spacing)
        yt == Thickness(params.thickness, x)
    IN  [xu |-> x, yu |-> yt, xl |-> x, yl |-> [i \in 1..Len(x) |-> 0 - yt[i]]]

\* a 6-series geometry whose camber line rises with the design lift coefficient
generate_geometry6_cambered(params, n_points, spacing) ==
    IF spacing \notin Spacings THEN Err("InvalidParameter", "spacing")
    ELSE LET x == SamplePoints(n_points, spacing)
             yt == Thickness(params.thickness, x)
             yc == [i \in 1..Len(x) |-> params.design_cl \div 10]
             sf == [xu |-> x, yu |-> [i \in 1..Len(x) |-> yc[i] + yt[i]],
                    xl |-> x, yl |-> [i \in 1..Len(x) |-> yc[i] - yt[i]]]
         IN  Ok(Assemble(sf, x, yt, yc, params.chord))

generate_geometry6(params, n_points, spacing) ==
    IF spacing \notin Spacings THEN Err("InvalidParameter", "spacing")
    ELSE LET x == SamplePoints(n_points, spacing)
             yt == Thickness(params.thickness, x)
         IN  Ok(Assemble(Surfaces6(params, n_points, spacing), x, yt,
                         Zeros(Len(x)), params.chord))

compute_metrics6(params, g) ==
    IF g.yt = <<>> THEN Err("ValueError", "max")
    ELSE Ok([code |-> params.code,
             pos_min_pressure |-> params.pos_min_pressure,
             design_cl |-> params.design_cl,
             thickness |-> params.thickness,
             chord |-> params.chord,
             max_thickness |-> MaxThickness(g.yt, params.chord),
             max_camber |-> MaxCamber(g.yc, params.chord),
             area |-> Area(g.x_loop, g.y_loop),
             leading_edge_radius |-> LeadingEdgeRadius(params.thickness, params.chord)])

\* the facade once the code is parsed: metrics of the geometry, then the record
FullFrom6(params, g) ==
    IF IsErr(g) THEN g
    ELSE FullOrError(g.val, compute_metrics6(params, g.val))

generate_naca6_full(rawcode, chord, n_points, spacing) ==
    LET params == parse_naca6(rawcode, chord)
    IN  IF IsErr(params) THEN params
        ELSE FullFrom6(params.val, generate_geometry6(params.val, n_points, spacing))

\* ------------------------------------------------------------------------
\* NACA 7- and 8-series placeholders
\* ------------------------------------------------------------------------
\* the series metrics keeping the code of the 4-digit record
SeriesMetricsBaseCode(metrics4, seriescode, note) ==
    [k \in DOMAIN metrics4 \cup {"note"} |-> IF k = "note" THEN note ELSE metrics4[k]]

\* Dictionaries are objects: heap is the sequence of the dictionaries there
\* are, a name holds the index of one.
\* metrics = metrics4: the same dictionary under a second name
DictAlias(heap, id) == [heap |-> heap, id |-> id]

\* dict(d): a new dictionary with the entries of d
DictCopy(heap, id) == [heap |-> Append(heap, heap[id]), id |-> Len(heap) + 1]

\* d[k] = v
SetItem(heap, id, k, v) ==
    LET d == heap[id]
    IN  [heap EXCEPT ![id] = [kk \in DOMAIN d \cup {k} |-> IF kk = k THEN v ELSE d[kk]]]

\* the dictionaries behind the names metrics4 and metrics when the facade
\* returns: metrics = dict(metrics4); metrics["code"] = ...; metrics["note"] = ...
SeriesLocals(metrics4, seriescode, note) ==
    LET copied == DictCopy(<<metrics4>>, 1)
        coded == SetItem(copied.heap, copied.id, "code", seriescode)
        noted == SetItem(coded, copied.id, "note", note)
    IN  [metrics4 |-> noted[1], metrics |-> noted[copied.id]]

\* the metrics the facade returns
SeriesMetrics(metrics4, seriescode, note) == SeriesLocals(metrics4, seriescode, note).metrics

\* the part of the facade after generate_naca4_full returned or raised
SeriesResult(full4, seriescode, note) ==
    IF IsErr(full4) THEN full4
    ELSE Ok([full4.val EXCEPT
               !.metrics = SeriesMetrics(full4.val.metrics, seriescode, note)])

generate_series_full(params, chord, n_points, spacing, note) ==
    IF IsErr(params) THEN params
    ELSE SeriesResult(generate_naca4_full(params.val.base4, chord, n_points, spacing),
                      params.val.code, note)

generate_naca7_full(rawcode, chord, n_points, spacing) ==
    generate_series_full(parse_naca7(rawcode, chord), chord, n_points, spacing,
                         "Geometry generated using NACA 4-digit equivalent of 7-series code.")

generate_naca8_full(rawcode, chord, n_points, spacing) ==
    generate_series_full(parse_naca8(rawcode, chord), chord, n_points, spacing,
                         "Geometry generated using NACA 4-digit equivalent of 8-series code.")

\* ------------------------------------------------------------------------
\* State
\* ------------------------------------------------------------------------
VARIABLES
    code,       \* the code string about to be handed to the core
    edits,      \* how many characters of the seed code were edited
    pres,       \* the last parser call: its name, chord and result
    s_xmc,      \* _compute_r_standard: the argument xmc
    r_old,      \* its local r_old
    diff,       \* its local diff
    it,         \* its local it
    s_pc,       \* where the call is: "idle", "loop" or "done"
    s_ret,      \* the value it returned
    args,       \* the arguments a caller hands to a facade
    out,        \* the last facade call: its name and what it returned or raised
    current_airfoil,      \* the window's current_airfoil: None or (x, y)
    current_camber,       \* its current_camber: None or (x_c, y_c)
    current_family,       \* its current_family
    naca_code_edit,       \* the code field: its text and placeholder
    chord_spin,           \* the value of the chord spin box
    n_points_spin,        \* the value of the points spin box
    show_camber_checkbox, \* whether "Show camber line" is checked
    grid_checkbox,        \* whether "Show grid" is checked
    properties_label,     \* what the properties label shows
    canvas,               \* what the axes show: title, grid and curves
    effects,              \* the handler that ran last and the boxes, dialogs,
                          \* messages and exceptions it produced
    files                 \* the files written so far

parseVars == <<code, edits, pres>>
solverVars == <<s_xmc, r_old, diff, it, s_pc, s_ret>>
genVars == <<args, out>>
coreVars == <<parseVars, solverVars, genVars>>
uiVars == <<current_airfoil, current_camber, current_family, naca_code_edit,
            chord_spin, n_points_spin, show_camber_checkbox, grid_checkbox,
            properties_label, canvas, effects, files>>
vars == <<parseVars, solverVars, genVars, uiVars>>

\* no facade call
GenIdle == args = [code |-> <<>>, chord |-> S, n_points |-> 0, spacing |-> "cosine"]
           /\ out = [fn |-> "none"]

\* the solver is not running
SolverIdle ==
    /\ s_xmc = 0 /\ r_old = 0 /\ diff = 0 /\ it = 0
    /\ s_pc = "idle" /\ s_ret = 0

\* no parser session
ParseIdle == code = <<>> /\ edits = 0 /\ pres = [fn |-> "none"]

\* Python's None, and a pair
None == [is |-> "None"]
Tuple(a, b) == [is |-> "tuple", a |-> a, b |-> b]

\* the value the points spin box starts with
PointsDefault == 200

\* the axes after _init_plot, and after _update_plot without an airfoil
Placeholder(grid) == [title |-> "No airfoil generated yet", grid |-> grid, lines |-> <<>>]

\* the window after construction
UiInit ==
    /\ current_airfoil = None
    /\ current_camber = None
    /\ current_family = "NACA 4-digit"
    /\ naca_code_edit = [text |-> <<>>, placeholder |-> "e.g. 2412"]
    /\ chord_spin = S
    /\ n_points_spin = PointsDefault
    /\ show_camber_checkbox = TRUE
    /\ grid_checkbox = TRUE
    /\ properties_label = [text |-> "No airfoil generated yet."]
    /\ canvas = Placeholder(TRUE)
    /\ effects = <<"__init__", "showMessage:Ready">>
    /\ files = {}

\* well-formed codes of every family, from the docstrings and placeholders
SeedCodes ==
    { <<"2", "4", "1", "2">>,
      <<"2", "3", "0", "1", "2">>,
      <<"6", "3", "-", "0", "1", "8">>,
      <<"7", "4", "1", "2">>,
      <<"7", "2", "4", "1", "2">>,
      <<"8", "2", "4", "1", "2">> }

\* characters an edit can put into the code
EditChars == {"0", "1", "2", "7", " ", "-", "+", "a", "AR3", "SUP2"}

\* chord lengths passed by the caller, in units of 1/S
Chords == {0 - S, 0, S, 2 * S}

NoCall == [fn |-> "none"]

\* ------------------------------------------------------------------------
\* The parser session: edit the code, call a parser on it.  The parsers are
\* pure, so one call per parser and code is enough; an edit discards the
\* result of the call before it.
\* ------------------------------------------------------------------------
ParseInit ==
    /\ code \in SeedCodes
    /\ edits = 0
    /\ pres = NoCall
    /\ SolverIdle
    /\ GenIdle
    /\ UiInit

ReplaceChar ==
    /\ edits < MaxEdits
    /\ \E i \in 1..Len(code), c \in EditChars :
          /\ c # code[i]
          /\ code' = [code EXCEPT ![i] = c]
    /\ edits' = edits + 1
    /\ pres' = NoCall
    /\ UNCHANGED <<solverVars, genVars, uiVars>>

InsertChar ==
    /\ edits < MaxEdits
    /\ \E i \in 0..Len(code), c \in EditChars :
          code' = SubSeq(code, 1, i) \o <<c>> \o SubSeq(code, i + 1, Len(code))
    /\ edits' = edits + 1
    /\ pres' = NoCall
    /\ UNCHANGED <<solverVars, genVars, uiVars>>

DeleteChar ==
    /\ edits < MaxEdits
    /\ \E i \in 1..Len(code) :
          code' = SubSeq(code, 1, i - 1) \o SubSeq(code, i + 1, Len(code))
    /\ edits' = edits + 1
    /\ pres' = NoCall
    /\ UNCHANGED <<solverVars, genVars, uiVars>>

CallParse4 ==
    /\ pres = NoCall
    /\ \E c \in Chords :
          pres' = [fn |-> "parse_naca4", chord |-> c, res |-> parse_naca4(code, c)]
    /\ UNCHANGED <<code, edits>>
    /\ UNCHANGED <<solverVars, genVars, uiVars>>

CallParse5 ==
    /\ pres = NoCall
    /\ \E c \in Chords :
          pres' = [fn |-> "parse_naca5", chord |-> c, res |-> parse_naca5(code, c)]
    /\ UNCHANGED <<code, edits>>
    /\ UNCHANGED <<solverVars, genVars, uiVars>>

CallParse6 ==
    /\ pres = NoCall
    /\ \E c \in Chords :
          pres' = [fn |-> "parse_naca6", chord |-> c, res |-> parse_naca6(code, c)]
    /\ UNCHANGED <<code, edits>>
    /\ UNCHANGED <<solverVars, genVars, uiVars>>

CallParse7 ==
    /\ pres = NoCall
    /\ \E c \in Chords :
          pres' = [fn |-> "parse_naca7", chord |-> c, res |-> parse_naca7(code, c)]
    /\ UNCHANGED <<code, edits>>
    /\ UNCHANGED <<solverVars, genVars, uiVars>>

CallParse8 ==
    /\ pres = NoCall
    /\ \E c \in Chords :
          pres' = [fn |-> "parse_naca8", chord |-> c, res |-> parse_naca8(code, c)]
    /\ UNCHANGED <<code, edits>>
    /\ UNCHANGED <<solverVars, genVars, uiVars>>

ParseNext ==
    \/ ReplaceChar
    \/ InsertChar
    \/ DeleteChar
    \/ CallParse4
    \/ CallParse5
    \/ CallParse6
    \/ CallParse7
    \/ CallParse8

SpecParse == ParseInit /\ [][ParseNext]_vars

\* ------------------------------------------------------------------------
\* One call of _compute_r_standard, an iteration of the loop per step
\* ------------------------------------------------------------------------
\* xmc = 0.05 * P for the digit P
Xmc(P) == 50000 * P

\* an xmc just above 4/9, where the iteration creeps past r = 4/3
SlowXmc == 444480

SolverInputs == {Xmc(P) : P \in 0..9} \cup {SlowXmc}

SolverInit ==
    /\ ParseIdle
    /\ GenIdle
    /\ UiInit
    /\ s_xmc \in SolverInputs
    /\ r_old = S \div 10
    /\ diff = S
    /\ it = 0
    /\ s_pc = "loop"
    /\ s_ret = 0

SolverIterate ==
    /\ s_pc = "loop"
    /\ LoopCond(diff, it, Tol, MaxIter)
    /\ r_old' = SolverStep(s_xmc, r_old)
    /\ diff' = FAbsDiff(r_old', r_old)
    /\ it' = it + 1
    /\ UNCHANGED <<s_xmc, s_pc, s_ret>>
    /\ UNCHANGED <<parseVars, genVars, uiVars>>

SolverReturn ==
    /\ s_pc = "loop"
    /\ ~LoopCond(diff, it, Tol, MaxIter)
    /\ s_pc' = "done"
    /\ s_ret' = r_old
    /\ UNCHANGED <<s_xmc, r_old, diff, it>>
    /\ UNCHANGED <<parseVars, genVars, uiVars>>

SolverNext ==
    \/ SolverIterate
    \/ SolverReturn

\* the loop is sequential code: it always takes its next step
SpecSolver == SolverInit /\ [][SolverNext]_vars /\ WF_vars(SolverNext)

\* ------------------------------------------------------------------------
\* A caller of the facades: pick the arguments, call one facade
\* ------------------------------------------------------------------------
\* Codes handed to the facades: valid ones of each family, the same with
\* surrounding blanks, and invalid ones.  No 5-digit code with P = 0 is among
\* them: its r is about 2e-11, which the unit 1/S cannot tell from 0.
GenCodes ==
    { <<"2", "4", "1", "2">>,
      <<"0", "0", "1", "2">>,
      <<"2", "0", "1", "2">>,
      <<" ", "2", "4", "1", "2">>,
      <<"2", "4", "1", "2", "3">>,
      <<"4", "1", "2">>,
      <<"2", "3", "0", "1", "2">>,
      <<"2", "3", "1", "1", "2">>,
      <<"2", "9", "0", "1", "2">>,
      <<"2", "3", "0", "1", "2", " ">>,
      <<"6", "3", "-", "0", "1", "8">>,
      <<"6", "5", "-", "4", "1", "8">>,
      <<" ", "6", "3", "-", "0", "1", "8">>,
      <<"7", "2", "4", "1", "2">>,
      <<"7", "4", "1", "2">>,
      <<" ", "7", "2", "4", "1", "2", " ">>,
      <<"8", "2", "4", "1", "2">>,
      <<"8", "2", "4", "1", "2", " ">> }

GenChords == {S, 2 * S}

\* the two spacings and a name that is neither
GenSpacings == Spacings \cup {"chebyshev"}

GenInit ==
    /\ ParseIdle
    /\ SolverIdle
    /\ UiInit
    /\ args \in [code : GenCodes, chord : GenChords, n_points : 0..MaxN,
                 spacing : GenSpacings]
    /\ out = [fn |-> "none"]

CallGenerate4 ==
    /\ out.fn = "none"
    /\ out' = [fn |-> "generate_naca4_full",
               res |-> generate_naca4_full(args.code, args.chord, args.n_points, args.spacing)]
    /\ UNCHANGED <<args, parseVars, solverVars, uiVars>>

CallGenerate5 ==
    /\ out.fn = "none"
    /\ out' = [fn |-> "generate_naca5_full",
               res |-> generate_naca5_full(args.code, args.chord, args.n_points, args.spacing)]
    /\ UNCHANGED <<args, parseVars, solverVars, uiVars>>

CallGenerate6 ==
    /\ out.fn = "none"
    /\ out' = [fn |-> "generate_naca6_full",
               res |-> generate_naca6_full(args.code, args.chord, args.n_points, args.spacing)]
    /\ UNCHANGED <<args, parseVars, solverVars, uiVars>>

CallGenerate7 ==
    /\ out.fn = "none"
    /\ out' = [fn |-> "generate_naca7_full",
               res |-> generate_naca7_full(args.code, args.chord, args.n_points, args.spacing)]
    /\ UNCHANGED <<args, parseVars, solverVars, uiVars>>

CallGenerate8 ==
    /\ out.fn = "none"
    /\ out' = [fn |-> "generate_naca8_full",
               res |-> generate_naca8_full(args.code, args.chord, args.n_points, args.spacing)]
    /\ UNCHANGED <<args, parseVars, solverVars, uiVars>>

GenNext ==
    \/ CallGenerate4
    \/ CallGenerate5
    \/ CallGenerate6
    \/ CallGenerate7
    \/ CallGenerate8

SpecGen == GenInit /\ [][GenNext]_vars

\* ------------------------------------------------------------------------
\* The main window: its handlers, driven by the user
\* ------------------------------------------------------------------------
\* the tabs of the family bar
Families ==
    {"NACA 4-digit", "NACA 5-digit", "NACA 6-series", "NACA 7-series", "NACA 8-series"}

PlaceholderText(text) ==
    CASE text = "NACA 4-digit" -> "e.g. 2412"
      [] text = "NACA 5-digit" -> "e.g. 23012"
      [] text = "NACA 6-series" -> "e.g. 63-018"
      [] text = "NACA 7-series" -> "7xxx"
      [] text = "NACA 8-series" -> "8xxx"

\* what the user types into the code field: nothing, a blank, a 4-digit code
\* and a 6-series code
UiCodes ==
    { <<>>,
      <<" ">>,
      <<"2", "4", "1", "2">>,
      <<"6", "3", "-", "0", "1", "8">> }

\* the values the user gives the chord spin box; the points spin box is left
\* at the value it starts with
UiChords == {S, 2 * S}

\* the names the user gives the save dialog; "" is a cancelled dialog
FileNames == {"", "airfoil"}

\* the try block of _on_generate_clicked: the facade of the family
generate_full(fam, rawcode, chord, n_points) ==
    IF fam = "NACA 4-digit" THEN generate_naca4_full(rawcode, chord, n_points, "cosine")
    ELSE IF fam = "NACA 5-digit" THEN generate_naca5_full(rawcode, chord, n_points, "cosine")
    ELSE IF fam = "NACA 6-series" THEN generate_naca6_full(rawcode, chord, n_points, "cosine")
    ELSE IF fam = "NACA 7-series" THEN generate_naca7_full(rawcode, chord, n_points, "cosine")
    ELSE IF fam = "NACA 8-series" THEN generate_naca8_full(rawcode, chord, n_points, "cosine")
    ELSE [status |-> "not implemented"]

\* every call the window can make, each evaluated once
UiCalls == Families \X {Strip(c) : c \in UiCodes} \X UiChords \X {PointsDefault}
UiResults == {[call |-> c, res |-> generate_full(c[1], c[2], c[3], c[4])] : c \in UiCalls}
Generate(fam, rawcode, chord, n_points) ==
    (CHOOSE e \in UiResults : e.call = <<fam, rawcode, chord, n_points>>).res

\* a test that never finds None
never_None(v) == FALSE

\* v is None
is_None(v) == v = None

\* x, y = v
Unpack(v) == IF v = None THEN Err("TypeError", "unpack") ELSE Ok(v)

\* f"{v:.<d>f}": v to the nearest multiple of unit, ties to even
Fixed(v, unit) ==
    LET q == Abs(v) \div unit
        r == Abs(v) % unit
        up == 2 * r > unit \/ (2 * r = unit /\ q % 2 = 1)
    IN  Sgn(v) * unit * (q + IF up THEN 1 ELSE 0)

\* metrics.get(key, default)
Get(metrics, key, default) == IF key \in DOMAIN metrics THEN metrics[key] ELSE default

\* the properties text of a metrics dictionary
PropertiesText(metrics, rawcode, chord) ==
    [Code |-> Get(metrics, "code", rawcode),
     Chord |-> Fixed(Get(metrics, "chord", chord), 1000),
     m |-> Fixed(Get(metrics, "m", 0), 1000),
     p |-> Fixed(Get(metrics, "p", 0), 1000),
     t |-> Fixed(Get(metrics, "t", 0), 1000),
     MaxThickness |-> Fixed(Get(metrics, "max_thickness", 0), 100),
     MaxCamber |-> Fixed(Get(metrics, "max_camber", 0), 100),
     Area |-> Fixed(Get(metrics, "area", 0), 100),
     LERadius |-> Fixed(Get(metrics, "leading_edge_radius", 0), 100)]

\* the axes after ax.clear()
Cleared == [title |-> "", grid |-> FALSE, lines |-> <<>>]

\* _update_plot: the axes it draws, or the exception of unpacking None
update_plot(airfoil, camber, show_camber, grid) ==
    IF is_None(airfoil) THEN Ok(Placeholder(grid))
    ELSE IF IsErr(Unpack(airfoil)) THEN Unpack(airfoil)
    ELSE IF ~is_None(camber) /\ show_camber
    THEN IF IsErr(Unpack(camber)) THEN Unpack(camber)
         ELSE Ok([title |-> "Airfoil geometry", grid |-> grid,
                  lines |-> <<airfoil, camber>>])
    ELSE Ok([title |-> "Airfoil geometry", grid |-> grid, lines |-> <<airfoil>>])

\* the axes and the trace a call of _update_plot leaves
Drawn(r) == IF IsOk(r) THEN r.val ELSE Cleared
DrawTrace(r) == IF IsOk(r) THEN <<"draw_idle">> ELSE <<"raise:TypeError">>

\* _update_plot called at the end of a handler that left the trace so far
Redraw(trace, plot) ==
    /\ canvas' = Drawn(plot)
    /\ effects' = trace \o DrawTrace(plot)

\* the geometry the window holds after the try block returned r
AirfoilAfterCleared(r, old) == IF IsOk(r) THEN Tuple(r.val.x_loop, r.val.y_loop) ELSE None

AirfoilAfter(r, old) == IF IsOk(r) THEN Tuple(r.val.x_loop, r.val.y_loop) ELSE old
CamberAfter(r, old) == IF IsOk(r) THEN Tuple(r.val.x_c, r.val.yc) ELSE old

\* the user edits the code field
TypeCode ==
    /\ \E text \in UiCodes :
          /\ text # naca_code_edit.text
          /\ naca_code_edit' = [naca_code_edit EXCEPT !.text = text]
    /\ effects' = <<"textEdited">>
    /\ UNCHANGED <<current_airfoil, current_camber, current_family, chord_spin,
                   n_points_spin, show_camber_checkbox, grid_checkbox,
                   properties_label, canvas, files, coreVars>>

\* the user changes the chord
SetChord ==
    /\ \E chord \in UiChords : chord # chord_spin /\ chord_spin' = chord
    /\ effects' = <<"valueChanged">>
    /\ UNCHANGED <<current_airfoil, current_camber, current_family, naca_code_edit,
                   n_points_spin, show_camber_checkbox, grid_checkbox,
                   properties_label, canvas, files, coreVars>>

\* "Show camber line" toggled: stateChanged runs _update_plot
ToggleCamber ==
    /\ show_camber_checkbox' = ~show_camber_checkbox
    /\ Redraw(<<"_update_plot">>,
              update_plot(current_airfoil, current_camber, ~show_camber_checkbox,
                          grid_checkbox))
    /\ UNCHANGED <<current_airfoil, current_camber, current_family, naca_code_edit,
                   chord_spin, n_points_spin, grid_checkbox, properties_label,
                   files, coreVars>>

\* "Show grid" toggled: stateChanged runs _update_plot
ToggleGrid ==
    /\ grid_checkbox' = ~grid_checkbox
    /\ Redraw(<<"_update_plot">>,
              update_plot(current_airfoil, current_camber, show_camber_checkbox,
                          ~grid_checkbox))
    /\ UNCHANGED <<current_airfoil, current_camber, current_family, naca_code_edit,
                   chord_spin, n_points_spin, show_camber_checkbox,
                   properties_label, files, coreVars>>

\* another tab of the family bar selected
_on_family_tab_changed ==
    /\ \E text \in Families :
          /\ text # current_family
          /\ current_family' = text
          /\ naca_code_edit' = [naca_code_edit EXCEPT !.placeholder = PlaceholderText(text)]
    /\ effects' = <<"_on_family_tab_changed", "showMessage:selected">>
    /\ UNCHANGED <<current_airfoil, current_camber, chord_spin, n_points_spin,
                   show_camber_checkbox, grid_checkbox, properties_label, canvas,
                   files, coreVars>>

\* Generate clicked, after the try block returned
ShowResult(rawcode, r, airfoil, camber) ==
    /\ current_airfoil' = airfoil
    /\ current_camber' = camber
    /\ properties_label' = [text |-> PropertiesText(r.val.metrics, rawcode, chord_spin)]
    /\ Redraw(<<"_on_generate_clicked", "showMessage:Generated">>,
              update_plot(airfoil, camber, show_camber_checkbox, grid_checkbox))

\* Generate clicked, from the test of the code to the end; r is what the try
\* block gives
GenerateClicked(rawcode, r) ==
    IF rawcode = <<>>
    THEN /\ effects' = <<"_on_generate_clicked", "information:Missing code">>
         /\ UNCHANGED <<current_airfoil, current_camber, properties_label, canvas>>
    ELSE IF r.status = "not implemented"
    THEN /\ effects' = <<"_on_generate_clicked", "information:Not implemented">>
         /\ UNCHANGED <<current_airfoil, current_camber, properties_label, canvas>>
    ELSE IF IsErr(r)
    THEN /\ effects' = <<"_on_generate_clicked", "warning:Error">>
         /\ current_airfoil' = AirfoilAfter(r, current_airfoil)
         /\ current_camber' = CamberAfter(r, current_camber)
         /\ UNCHANGED <<properties_label, canvas>>
    ELSE ShowResult(rawcode, r, AirfoilAfter(r, current_airfoil),
                    CamberAfter(r, current_camber))

\* Generate clicked
_on_generate_clicked ==
    /\ GenerateClicked(Strip(naca_code_edit.text),
                       Generate(current_family, Strip(naca_code_edit.text), chord_spin,
                                n_points_spin))
    /\ UNCHANGED <<current_family, naca_code_edit, chord_spin, n_points_spin,
                   show_camber_checkbox, grid_checkbox, files, coreVars>>

\* Reset clicked
_on_reset_clicked ==
    /\ naca_code_edit' = [naca_code_edit EXCEPT !.text = <<>>]
    /\ chord_spin' = S
    /\ n_points_spin' = PointsDefault
    /\ current_airfoil' = None
    /\ current_camber' = None
    /\ properties_label' = [text |-> "No airfoil generated yet."]
    /\ canvas' = Placeholder(grid_checkbox)
    /\ effects' = <<"_on_reset_clicked", "draw_idle", "showMessage:Parameters reset">>
    /\ UNCHANGED <<current_family, show_camber_checkbox, grid_checkbox, files, coreVars>>

\* the file an export writes: a header line and one line per point
Written(filename, format, header, airfoil) ==
    [name |-> filename, format |-> format, header |-> header,
     points |-> IF Len(airfoil.a) < Len(airfoil.b) THEN Len(airfoil.a) ELSE Len(airfoil.b)]

\* an export button clicked
Export(handler, format, header) ==
    IF is_None(current_airfoil)
    THEN /\ effects' = <<handler, "information:No data">>
         /\ files' = files
    ELSE \E filename \in FileNames :
             IF filename = ""
             THEN /\ effects' = <<handler, "getSaveFileName">>
                  /\ files' = files
             ELSE IF IsErr(Unpack(current_airfoil))
             THEN /\ effects' = <<handler, "getSaveFileName", "raise:TypeError">>
                  /\ files' = files
             ELSE \E opened \in BOOLEAN :
                     IF opened
                     THEN /\ effects' = <<handler, "getSaveFileName", "open:w",
                                          "showMessage:Exported">>
                          /\ files' = {f \in files : f.name # filename}
                                         \cup {Written(filename, format, header,
                                                       current_airfoil)}
                     ELSE /\ effects' = <<handler, "getSaveFileName", "open:w",
                                          "warning:Error">>
                          /\ files' = files

\* what an export leaves alone
ExportKeeps == <<current_airfoil, current_camber, current_family, naca_code_edit,
                 chord_spin, n_points_spin, show_camber_checkbox, grid_checkbox,
                 properties_label, canvas, coreVars>>

_export_dat ==
    /\ Export("_export_dat", "dat", "Generated by WingsCAD")
    /\ UNCHANGED ExportKeeps

_export_csv ==
    /\ Export("_export_csv", "csv", "x,y")
    /\ UNCHANGED ExportKeeps

UiSpecInit ==
    /\ ParseIdle
    /\ SolverIdle
    /\ GenIdle
    /\ UiInit

UiNext ==
    \/ TypeCode
    \/ SetChord
    \/ ToggleCamber
    \/ ToggleGrid
    \/ _on_family_tab_changed
    \/ _on_generate_clicked
    \/ _on_reset_clicked
    \/ _export_dat
    \/ _export_csv

SpecUI == UiSpecInit /\ [][UiNext]_vars

\* ------------------------------------------------------------------------
\* Parser claims
\* ------------------------------------------------------------------------
AllIn(s, chars) == \A i \in 1..Len(s) : s[i] \in chars

\* the value of a two-character decimal group
Pair(s, i) == 10 * DigitVal(s[i]) + DigitVal(s[i + 1])

Decodes4(v, s) ==
    /\ v.m = DigitVal(s[1]) * 10000
    /\ v.p = DigitVal(s[2]) * 100000
    /\ v.t = Pair(s, 3) * 10000

\* C1 as stated: parse_naca4 succeeds exactly when the input itself is 4
\* ASCII digits, decoding m, p and t from them; every other input fails with
\* InvalidCodeFormat and nothing is normalised into an accepted code.
C1_AsStated ==
    pres.fn = "parse_naca4" =>
        LET four == Len(code) = 4 /\ AllIn(code, AsciiDigits)
        IN  /\ IsOk(pres.res) <=> four
            /\ IsOk(pres.res) => Decodes4(pres.res.val, code)
            /\ ~four => Failed(pres.res, "InvalidCodeFormat")

\* C1 amended: parse_naca4 succeeds exactly when the input with leading and
\* trailing whitespace stripped is 4 decimal digits (ASCII or not), decoding
\* m = digit1/100, p = digit2/10, t = digits34/100 from the stripped code;
\* every other input fails with InvalidCodeFormat, so a fifth digit is never
\* truncated away.
C1_Parse4 ==
    pres.fn = "parse_naca4" =>
        LET s == Strip(code)
            four == Len(s) = 4 /\ AllIn(s, DecimalChars)
        IN  /\ IsOk(pres.res) <=> four
            /\ IsOk(pres.res) => Decodes4(pres.res.val, s) /\ pres.res.val.code = s
            /\ ~four => Failed(pres.res, "InvalidCodeFormat")

\* parse_naca4 accepted an input that is longer than 4 characters
C1_Witness ==
    /\ pres.fn = "parse_naca4"
    /\ IsOk(pres.res)
    /\ Len(code) = 5

Decodes5(v, s) ==
    /\ v.L = DigitVal(s[1])
    /\ v.P = DigitVal(s[2])
    /\ v.Q = DigitVal(s[3])
    /\ v.t = Pair(s, 4) * 10000

\* C2 as stated: parse_naca5 accepts only inputs of exactly 5 digits, decodes
\* L, P, Q and t from them, fails with InvalidParameter when the third digit is
\* not 0 or 1, and fails with InvalidCodeFormat on a malformed string whatever
\* its third character.
C2_AsStated ==
    pres.fn = "parse_naca5" =>
        LET five == Len(code) = 5 /\ AllIn(code, DecimalChars)
        IN  /\ IsOk(pres.res) => five /\ Decodes5(pres.res.val, code)
            /\ five /\ DigitVal(code[3]) \notin {0, 1}
                  => Failed(pres.res, "InvalidParameter")
            /\ ~five => Failed(pres.res, "InvalidCodeFormat")

\* C2 amended: the same, of the input with leading and trailing whitespace
\* stripped.
C2_Parse5 ==
    pres.fn = "parse_naca5" =>
        LET s == Strip(code)
            five == Len(s) = 5 /\ AllIn(s, DecimalChars)
        IN  /\ IsOk(pres.res) => five /\ Decodes5(pres.res.val, s)
            /\ five /\ DigitVal(s[3]) \notin {0, 1}
                  => Failed(pres.res, "InvalidParameter")
            /\ ~five => Failed(pres.res, "InvalidCodeFormat")

\* parse_naca5 rejected five digits for their third digit alone
C2_Witness ==
    /\ pres.fn = "parse_naca5"
    /\ Failed(pres.res, "InvalidParameter")
    /\ code = <<"2", "3", "2", "1", "2">>

\* C3 (on inputs that carry no surrounding whitespace): parse_naca6 succeeds
\* exactly when the input is "6", a digit, "-" and three digits, decoding
\* pos_min_pressure, design_cl and thickness from them; every structural
\* mismatch, a sign or blank in positions 5-6 included, fails with
\* InvalidCodeFormat.
C3_AsStated ==
    (pres.fn = "parse_naca6" /\ code = Strip(code)) =>
        LET form == /\ Len(code) = 6
                    /\ code[1] = "6"
                    /\ code[2] \in DecimalChars
                    /\ code[3] = "-"
                    /\ AllIn(SliceFrom(code, 3), DecimalChars)
        IN  /\ IsOk(pres.res) <=> form
            /\ IsOk(pres.res) =>
                  /\ pres.res.val.pos_min_pressure = DigitVal(code[2])
                  /\ pres.res.val.design_cl = DigitVal(code[4]) * 100000
                  /\ pres.res.val.thickness = Pair(code, 5) * 10000
            /\ ~form => Failed(pres.res, "InvalidCodeFormat")

FamilyDigit == IF pres.fn = "parse_naca7" THEN "7" ELSE "8"

\* C4 as stated: parse_naca7/8 accepts an input only if it is all digits, at
\* least 4 long, starts with the family digit and has exactly 4 digits after
\* it, which become base4 verbatim; a mismatching leading digit or a remainder
\* whose length is not 4 fails with InvalidCodeFormat.
C4_AsStated ==
    pres.fn \in {"parse_naca7", "parse_naca8"} =>
        /\ IsOk(pres.res) =>
              /\ IsDigitStr(code) /\ Len(code) >= 4
              /\ code[1] = FamilyDigit
              /\ Len(code) - 1 = 4
              /\ pres.res.val.base4 = SliceFrom(code, 1)
        /\ (code = <<>> \/ code[1] # FamilyDigit \/ Len(code) - 1 # 4)
              => Failed(pres.res, "InvalidCodeFormat")

\* C4 amended: the same, of the input with leading and trailing whitespace
\* stripped.
C4_ParseSeries ==
    pres.fn \in {"parse_naca7", "parse_naca8"} =>
        LET s == Strip(code)
        IN  /\ IsOk(pres.res) =>
                  /\ IsDigitStr(s) /\ Len(s) >= 4
                  /\ s[1] = FamilyDigit
                  /\ Len(s) - 1 = 4
                  /\ pres.res.val.base4 = SliceFrom(s, 1)
            /\ (s = <<>> \/ s[1] # FamilyDigit \/ Len(s) - 1 # 4)
                  => Failed(pres.res, "InvalidCodeFormat")

\* parse_naca7 rejected six digits that start with 7
C4_Witness ==
    /\ pres.fn = "parse_naca7"
    /\ Failed(pres.res, "InvalidCodeFormat")
    /\ Len(code) = 6 /\ AllIn(code, AsciiDigits) /\ code[1] = "7"

\* ------------------------------------------------------------------------
\* Facade claims
\* ------------------------------------------------------------------------
\* the code of the 4-digit section a facade call computes, once the
\* surrounding blanks are gone
BaseCode ==
    IF out.fn \in {"generate_naca7_full", "generate_naca8_full"}
    THEN SliceFrom(Strip(args.code), 1)
    ELSE Strip(args.code)

\* the upper and lower surfaces behind a successful facade call
OutSurfaces ==
    IF out.fn = "generate_naca5_full"
    THEN LET params == parse_naca5(args.code, args.chord).val
             r == compute_r_standard(50000 * params.P)
         IN  Surfaces5(params, r, compute_k1_standard(params.L, r).val,
                       args.n_points, args.spacing)
    ELSE IF out.fn = "generate_naca6_full"
    THEN Surfaces6(parse_naca6(args.code, args.chord).val, args.n_points, args.spacing)
    ELSE Surfaces4(parse_naca4(BaseCode, args.chord).val, args.n_points, args.spacing)

Generated == out.fn # "none" /\ IsOk(out.res)

\* C5: generate_naca7_full("7412", chord, n_points) succeeds and returns the
\* contour and camber line the 4-digit generator returns for "412" at the
\* same chord and sample count.
C5_AsStated ==
    (/\ out.fn = "generate_naca7_full"
     /\ args.code = <<"7", "4", "1", "2">>
     /\ args.spacing \in Spacings
     /\ args.n_points >= 1) =>
        LET four == generate_naca4_full(<<"4", "1", "2">>, args.chord,
                                        args.n_points, args.spacing)
        IN  /\ IsOk(out.res)
            /\ IsOk(four)
            /\ out.res.val.x_loop = four.val.x_loop
            /\ out.res.val.y_loop = four.val.y_loop
            /\ out.res.val.x_c = four.val.x_c
            /\ out.res.val.yc = four.val.yc

C7_ContourOrder ==
    Generated =>
        LET n == args.n_points
            v == out.res.val
            sf == OutSurfaces
        IN  /\ DOMAIN v.x_loop = 1..(IF n = 0 THEN 0 ELSE 2 * n - 1)
            /\ DOMAIN v.y_loop = DOMAIN v.x_loop
            /\ \A i \in 0..(n - 1) :
                  /\ v.x_loop[i + 1] = Mul(sf.xu[n - i], args.chord)
                  /\ v.y_loop[i + 1] = sf.yu[n - i]
            /\ \A j \in 1..(n - 1) :
                  /\ v.x_loop[n + j] = Mul(sf.xl[j + 1], args.chord)
                  /\ v.y_loop[n + j] = sf.yl[j + 1]

\* a cambered 4-digit contour whose two surfaces differ
C7_Witness ==
    /\ Generated
    /\ out.fn = "generate_naca4_full"
    /\ args.n_points = 3
    /\ out.res.val.y_loop[1] # out.res.val.y_loop[5]
    /\ out.res.val.y_loop[2] # out.res.val.y_loop[4]

\* C8: for a 5-digit code whose third digit is 1, parse_naca5 succeeds and
\* generate_naca5_full fails with NotSupported, whatever the sample count and
\* the spacing are: it returns nothing, and what the caller gets is the very
\* failure generate_geometry raised.
C8_ReflexRejected ==
    (/\ out.fn = "generate_naca5_full"
     /\ Len(Strip(args.code)) = 5
     /\ AllIn(Strip(args.code), DecimalChars)
     /\ DigitVal(Strip(args.code)[3]) = 1) =>
        /\ IsOk(parse_naca5(args.code, args.chord))
        /\ Failed(out.res, "NotSupported")
        /\ DOMAIN out.res = {"status", "err", "site"}
        /\ out.res = generate_geometry5(parse_naca5(args.code, args.chord).val,
                                        args.n_points, args.spacing)

\* the reflex code was rejected although the spacing was invalid too
C8_Witness ==
    /\ out.fn = "generate_naca5_full"
    /\ args.code = <<"2", "3", "1", "1", "2">>
    /\ args.spacing \notin Spacings
    /\ Failed(out.res, "NotSupported")

\* C9 as stated: the code entry of the metrics record is the code string the
\* caller passed in, in every family.
C9_AsStated == Generated => out.res.val.metrics.code = args.code

\* C9 amended: the code entry of the metrics record is the code string the
\* caller passed in with its leading and trailing whitespace stripped (for the
\* 7-/8-series the full code, not the 4-digit sub-code).
C9_CodeRoundTrip == Generated => out.res.val.metrics.code = Strip(args.code)

\* a 7-series call whose code came with surrounding blanks
C9_Witness ==
    /\ Generated
    /\ out.fn = "generate_naca7_full"
    /\ args.code # Strip(args.code)
    /\ out.res.val.metrics.code = <<"7", "2", "4", "1", "2">>

\* ------------------------------------------------------------------------
\* Solver claims
\* ------------------------------------------------------------------------
\* C10: _compute_r_standard terminates; it makes at least one and at most
\* 1000 iterations; once an iteration's step is below the tolerance it makes
\* no further iteration; and it returns its last iterate, also when the cap
\* of 1000 iterations is what stopped it.
C10_SolverTerminates ==
    /\ <>(s_pc = "done")
    /\ [](s_pc = "done" => (it >= 1 /\ it <= MaxIter /\ s_ret = r_old))
    /\ [][(it >= 1 /\ diff # NaN /\ diff < Tol) => it' = it]_vars
    /\ [][s_pc = "done" => UNCHANGED solverVars]_vars

\* the cap stopped the loop: 1000 iterations and a step still above the
\* tolerance
C10_Witness ==
    /\ s_pc = "done"
    /\ it = MaxIter
    /\ FGreater(diff, Tol)
    /\ s_ret = r_old

\* ------------------------------------------------------------------------
\* Symmetric sections, 6-series metadata, delegation, chord scaling
\* ------------------------------------------------------------------------
\* C11: for every valid 4-digit code whose second digit is 0, whatever the
\* first digit is, the camber ordinate and the camber slope are zero at every
\* sample point, the surfaces are mirror images (x_upper = x_lower = x,
\* y_upper = -y_lower = y_t) and max_camber is 0.
C11_SymmetricSection ==
    (/\ Generated
     /\ out.fn = "generate_naca4_full"
     /\ DigitVal(Strip(args.code)[2]) = 0) =>
        LET n == args.n_points
            v == out.res.val
            params == parse_naca4(args.code, args.chord).val
            x == SamplePoints(n, args.spacing)
            yt == Thickness(params.t, x)
            sf == OutSurfaces
        IN  /\ v.yc = Zeros(n)
            /\ Camber4(params.m, params.p, x) = Zeros(n)
            /\ Slope4(params.m, params.p, x) = Zeros(n)
            /\ sf.xu = x
            /\ sf.xl = x
            /\ sf.yu = yt
            /\ sf.yl = [i \in 1..n |-> 0 - yt[i]]
            /\ \A i \in 1..(2 * n - 1) :
                  /\ v.y_loop[i] = 0 - v.y_loop[2 * n - i]
                  /\ v.x_loop[i] = v.x_loop[2 * n - i]
            /\ v.metrics.max_camber = 0

\* a section with m = 2 % and p = 0 and a thickness that is not zero
C11_Witness ==
    /\ Generated
    /\ out.fn = "generate_naca4_full"
    /\ args.code = <<"2", "0", "1", "2">>
    /\ args.n_points >= 3
    /\ out.res.val.metrics.m = 20000
    /\ out.res.val.y_loop[2] > 0
    /\ out.res.val.yc = Zeros(args.n_points)

\* the digits a 6-series code is varied over
VariedDigits == {"0", "3", "4", "9"}

\* the codes that differ from a 6-character code at most in the second and
\* the fourth character
SameThickness6(c) ==
    {[c EXCEPT ![2] = a, ![4] = b] : a \in VariedDigits, b \in VariedDigits}

\* a 6-series call that returned, on a code of plain digits
Generated6 ==
    /\ Generated
    /\ out.fn = "generate_naca6_full"
    /\ AllIn(SliceFrom(Strip(args.code), 3), DecimalChars)

\* the contour and the camber line of res are those of the state's result
\* and the metrics differ at most in the entries named
SameButFor(res, entries) ==
    /\ IsOk(res)
    /\ res.val.x_loop = out.res.val.x_loop
    /\ res.val.y_loop = out.res.val.y_loop
    /\ res.val.x_c = out.res.val.x_c
    /\ res.val.yc = out.res.val.yc
    /\ res.val.yc = Zeros(args.n_points)
    /\ DOMAIN res.val.metrics = DOMAIN out.res.val.metrics
    /\ \A k \in DOMAIN res.val.metrics \ entries :
          res.val.metrics[k] = out.res.val.metrics[k]

\* C12 as stated: two 6-series codes that differ only in the pos_min_pressure
\* digit and/or the design_cl digit give identical contours and a zero camber
\* line, and metrics records that differ in no entry other than
\* pos_min_pressure and design_cl.
C12_AsStated ==
    Generated6 =>
        \A c2 \in SameThickness6(Strip(args.code)) :
            SameButFor(generate_naca6_full(c2, args.chord, args.n_points, args.spacing),
                       {"pos_min_pressure", "design_cl"})

\* C12 amended: two such codes give identical contours and a zero camber
\* line, and metrics records that differ in no entry other than code,
\* pos_min_pressure and design_cl, which are the stripped code, its second
\* digit and a tenth of its fourth digit ("63-018": 3, 0.0, thickness 0.18).
C12_DigitsAreMetadata ==
    Generated6 =>
        /\ \A c2 \in SameThickness6(Strip(args.code)) :
              LET res == generate_naca6_full(c2, args.chord, args.n_points, args.spacing)
              IN  /\ SameButFor(res, {"code", "pos_min_pressure", "design_cl"})
                  /\ res.val.metrics.code = c2
                  /\ res.val.metrics.pos_min_pressure = DigitVal(c2[2])
                  /\ res.val.metrics.design_cl = DigitVal(c2[4]) * (S \div 10)
        /\ Strip(args.code) = <<"6", "3", "-", "0", "1", "8">> =>
              /\ out.res.val.metrics.pos_min_pressure = 3
              /\ out.res.val.metrics.design_cl = 0
              /\ out.res.val.metrics.thickness = 180000

\* 65-418 was generated, which differs from 63-018 in both digits
C12_Witness ==
    /\ Generated6
    /\ args.code = <<"6", "5", "-", "4", "1", "8">>
    /\ args.n_points >= 3
    /\ out.res.val.metrics.design_cl = 400000
    /\ <<"6", "3", "-", "0", "1", "8">> \in SameThickness6(args.code)
    /\ out.res.val.y_loop[2] > 0

\* the note a series facade adds
SeriesNote ==
    IF out.fn = "generate_naca7_full"
    THEN "Geometry generated using NACA 4-digit equivalent of 7-series code."
    ELSE "Geometry generated using NACA 4-digit equivalent of 8-series code."

\* the parameters parse_naca7 or parse_naca8 returns for the code of the call
SeriesParams ==
    IF out.fn = "generate_naca7_full"
    THEN parse_naca7(args.code, args.chord)
    ELSE parse_naca8(args.code, args.chord)

\* C13: for every accepted 7- or 8-series code the facade returns the contour
\* and the camber line of generate_naca4_full on base4 with the same chord,
\* n_points and spacing (and fails as it fails); the metrics are the 4-digit
\* metrics with code replaced by the series code and a note entry added that
\* states the 4-digit substitution; the 4-digit record is not modified.
C13_SeriesDelegates ==
    (out.fn \in {"generate_naca7_full", "generate_naca8_full"} /\ IsOk(SeriesParams)) =>
        LET params == SeriesParams.val
            four == generate_naca4_full(params.base4, args.chord, args.n_points,
                                        args.spacing)
        IN  IF IsErr(four) THEN out.res = four
            ELSE LET v == out.res.val
                     m4 == four.val.metrics
                     locals == SeriesLocals(m4, params.code, SeriesNote)
                 IN  /\ IsOk(out.res)
                     /\ params.base4 = SliceFrom(Strip(args.code), 1)
                     /\ v.x_loop = four.val.x_loop
                     /\ v.y_loop = four.val.y_loop
                     /\ v.x_c = four.val.x_c
                     /\ v.yc = four.val.yc
                     /\ DOMAIN v.metrics = DOMAIN m4 \cup {"note"}
                     /\ "note" \notin DOMAIN m4
                     /\ \A k \in DOMAIN m4 \ {"code"} : v.metrics[k] = m4[k]
                     /\ v.metrics.code = params.code
                     /\ v.metrics.note = SeriesNote
                     /\ m4.code = params.base4
                     /\ locals.metrics = v.metrics
                     /\ locals.metrics4 = m4

\* an 8-series code drawn as the cambered section 2412
C13_Witness ==
    /\ Generated
    /\ out.fn = "generate_naca8_full"
    /\ Strip(args.code) = <<"8", "2", "4", "1", "2">>
    /\ args.n_points >= 3
    /\ out.res.val.metrics.code = <<"8", "2", "4", "1", "2">>
    /\ out.res.val.metrics.m = 20000
    /\ "note" \in DOMAIN out.res.val.metrics

\* the facade of the state's call, on another chord
CallAtChord(chord) ==
    IF out.fn = "generate_naca4_full"
    THEN generate_naca4_full(args.code, chord, args.n_points, args.spacing)
    ELSE IF out.fn = "generate_naca5_full"
    THEN generate_naca5_full(args.code, chord, args.n_points, args.spacing)
    ELSE IF out.fn = "generate_naca6_full"
    THEN generate_naca6_full(args.code, chord, args.n_points, args.spacing)
    ELSE IF out.fn = "generate_naca7_full"
    THEN generate_naca7_full(args.code, chord, args.n_points, args.spacing)
    ELSE generate_naca8_full(args.code, chord, args.n_points, args.spacing)

\* C14: in every family, for a fixed code, sample count and spacing, the
\* contour and camber-line x-coordinates for chord c are c times those for
\* chord 1, and every contour y-coordinate and camber ordinate is the same as
\* for chord 1.
C14_ChordScalesX ==
    Generated =>
        LET v == out.res.val
            unit == CallAtChord(S)
        IN  /\ IsOk(unit)
            /\ v.x_loop = Scale(unit.val.x_loop, args.chord)
            /\ v.x_c = Scale(unit.val.x_c, args.chord)
            /\ v.y_loop = unit.val.y_loop
            /\ v.yc = unit.val.yc

\* a cambered 5-digit section generated at chord 2
C14_Witness ==
    /\ Generated
    /\ out.fn = "generate_naca5_full"
    /\ args.chord = 2 * S
    /\ args.n_points >= 3
    /\ out.res.val.x_loop[1] > S
    /\ out.res.val.yc[2] > 0

\* ------------------------------------------------------------------------
\* The 4-digit parameter record
\* ------------------------------------------------------------------------
\* C15 as stated: every parameter record parse_naca4 returns, for every
\* accepted code and every chord the caller passes, has m in [0, 0.09],
\* p in [0, 0.9], t in the open interval (0, 1) and chord > 0.
C15_AsStated ==
    (pres.fn = "parse_naca4" /\ IsOk(pres.res)) =>
        LET params == pres.res.val
        IN  /\ params.m >= 0 /\ params.m <= 9 * (S \div 100)
            /\ params.p >= 0 /\ params.p <= 9 * (S \div 10)
            /\ params.t > 0 /\ params.t < S
            /\ params.chord > 0

\* ------------------------------------------------------------------------
\* Metrics
\* ------------------------------------------------------------------------
\* C17: the area metric, half the absolute value of the cyclic shoelace sum
\* over the contour, is unchanged when the point order of the contour is
\* reversed: the signed sum flips its sign and keeps its magnitude.
C17_AreaReversal ==
    Generated =>
        LET xs == out.res.val.x_loop
            ys == out.res.val.y_loop
        IN  /\ ShoelaceSum(Reverse(xs), Reverse(ys)) = 0 - ShoelaceSum(xs, ys)
            /\ Area(Reverse(xs), Reverse(ys)) = Area(xs, ys)
            /\ out.res.val.metrics.area = Area(Reverse(xs), Reverse(ys))

\* a cambered contour that encloses an area and is not its own reverse
C17_Witness ==
    /\ Generated
    /\ out.fn = "generate_naca4_full"
    /\ args.code = <<"2", "4", "1", "2">>
    /\ args.n_points >= 3
    /\ out.res.val.metrics.area > 0
    /\ ShoelaceSum(out.res.val.x_loop, out.res.val.y_loop) # 0
    /\ Reverse(out.res.val.y_loop) # out.res.val.y_loop

\* the scale factors tried
Factors == {2, 3, 5}

\* the facade of the state's call, with another code and chord
CallWith(rawcode, chord) ==
    IF out.fn = "generate_naca4_full"
    THEN generate_naca4_full(rawcode, chord, args.n_points, args.spacing)
    ELSE IF out.fn = "generate_naca5_full"
    THEN generate_naca5_full(rawcode, chord, args.n_points, args.spacing)
    ELSE IF out.fn = "generate_naca6_full"
    THEN generate_naca6_full(rawcode, chord, args.n_points, args.spacing)
    ELSE IF out.fn = "generate_naca7_full"
    THEN generate_naca7_full(rawcode, chord, args.n_points, args.spacing)
    ELSE generate_naca8_full(rawcode, chord, args.n_points, args.spacing)

\* the thickness digit group of an accepted code: its last two digits
ThicknessDigits(rawcode) == Pair(RStrip(rawcode), Len(RStrip(rawcode)) - 1)

DigitOf(d) == CHOOSE ch \in AsciiDigits : DigitVal(ch) = d

\* the code with its thickness digit group replaced by the two digits of tt
WithThickness(rawcode, tt) ==
    LET last == Len(RStrip(rawcode))
    IN  [rawcode EXCEPT ![last - 1] = DigitOf(tt \div 10), ![last] = DigitOf(tt % 10)]

\* the rounding of the k-fold thickness: each ordinate is cut to a multiple
\* of 1/S, so k times the cut ordinate is up to k - 1 units below the cut
\* k-fold one, twice that for 2 * yt, times the chord
Rounding(k, chord) == 2 * (k - 1) * (Abs(chord) \div S)

\* C18: max_thickness is linear in the chord and in the thickness digit
\* group: with the other inputs fixed, max_thickness for chord k*c is k times
\* max_thickness for chord c, and max_thickness for thickness digits k*TT is
\* k times max_thickness for thickness digits TT (to the rounding of the
\* arithmetic).
C18_ThicknessLinear ==
    Generated =>
        \A k \in Factors :
            LET mt == out.res.val.metrics.max_thickness
                wider == CallWith(args.code, k * args.chord)
                tt == ThicknessDigits(args.code)
                thicker == CallWith(WithThickness(args.code, k * tt), args.chord)
            IN  /\ IsOk(wider)
                /\ wider.val.metrics.max_thickness = k * mt
                /\ k * tt <= 99 =>
                      /\ IsOk(thicker)
                      /\ thicker.val.metrics.max_thickness >= k * mt
                      /\ thicker.val.metrics.max_thickness <= k * mt + Rounding(k, args.chord)

\* a 12 % section whose 36 % and 60 % relatives are thicker, and whose
\* thickness grows with the chord
C18_Witness ==
    /\ Generated
    /\ out.fn = "generate_naca5_full"
    /\ ThicknessDigits(args.code) = 12
    /\ args.n_points >= 3
    /\ out.res.val.metrics.max_thickness > 0
    /\ CallWith(WithThickness(args.code, 36), args.chord).val.metrics.max_thickness
          > 2 * out.res.val.metrics.max_thickness
    /\ CallWith(args.code, 5 * args.chord).val.metrics.max_thickness
          > 4 * out.res.val.metrics.max_thickness

\* ------------------------------------------------------------------------
\* The main window
\* ------------------------------------------------------------------------
\* C16: the window handles the absent geometry without error: after start-up
\* and after every Reset current_airfoil is None; in that state a plot
\* refresh (camber or grid toggled) draws the empty placeholder and raises
\* nothing, and both exports return after the "No data" notice, without a
\* save dialog and without writing a file.
C16_AbsentGeometry ==
    /\ [](effects[1] \in {"__init__", "_on_reset_clicked"} =>
             /\ current_airfoil = None
             /\ canvas = Placeholder(grid_checkbox))
    /\ [][current_airfoil = None =>
             /\ effects'[1] = "_update_plot" =>
                   /\ canvas' = Placeholder(grid_checkbox')
                   /\ effects' = <<"_update_plot", "draw_idle">>
             /\ effects'[1] \in {"_export_dat", "_export_csv"} =>
                   /\ effects' = <<effects'[1], "information:No data">>
                   /\ files' = files]_vars

\* an export refused after a Reset: a file written earlier shows there was an
\* airfoil, and the placeholder was redrawn with the grid switched off
C16_Witness ==
    /\ current_airfoil = None
    /\ effects = <<"_export_dat", "information:No data">>
    /\ files # {}
    /\ ~grid_checkbox
    /\ canvas = Placeholder(FALSE)

\* C19: a Generate that does not succeed (empty code field, or the core
\* raising for the selected family) leaves current_airfoil and
\* current_camber as they were; every step leaves the pair alone, or is a
\* Reset that sets both to None, or is a successful Generate that sets both
\* from its result; and current_airfoil is None exactly when current_camber
\* is None.
C19_GenerateKeepsGeometry ==
    /\ [](current_airfoil = None <=> current_camber = None)
    /\ [][LET rawcode == Strip(naca_code_edit.text)
              r == Generate(current_family, rawcode, chord_spin, n_points_spin)
              failed == rawcode = <<>> \/ ~IsOk(r)
          IN  /\ (effects'[1] = "_on_generate_clicked" /\ failed) =>
                    UNCHANGED <<current_airfoil, current_camber>>
              /\ \/ UNCHANGED <<current_airfoil, current_camber>>
                 \/ /\ effects'[1] = "_on_reset_clicked"
                    /\ current_airfoil' = None
                    /\ current_camber' = None
                 \/ /\ effects'[1] = "_on_generate_clicked"
                    /\ ~failed
                    /\ current_airfoil' = Tuple(r.val.x_loop, r.val.y_loop)
                    /\ current_camber' = Tuple(r.val.x_c, r.val.yc)]_vars

\* a Generate that raised for the selected family while an airfoil of
\* another family was held: the airfoil and its camber line are still there
C19_Witness ==
    /\ effects = <<"_on_generate_clicked", "warning:Error">>
    /\ current_family = "NACA 5-digit"
    /\ current_airfoil # None
    /\ current_camber # None
    /\ Len(current_airfoil.a) = 2 * PointsDefault - 1
    /\ Len(current_camber.a) = PointsDefault

====
